---- MODULE Spec2Model ----
(***************************************************************************)
(* Model of the create-service-push CF CLI plugin                          *)
(* (src/create-services-plugin.go).                                        *)
(*                                                                         *)
(* The state is the state of one invocation of CreateServicePush.Run: the  *)
(* argument list, the locals of Run (manifestFilename, pushApplication),   *)
(* the parsed manifest, the position of the createServices loop, and the   *)
(* trace of calls made to the outside world (os.Stat, the CLI connection). *)
(* The control plane and the file system are the environment: what they    *)
(* answer is drawn from small sets.                                        *)
(***************************************************************************)
EXTENDS Integers, Sequences, FiniteSets, TLC

VARIABLES
    args,              \* Run's args parameter; args[1] is Go's args[0]
    fsStatus,          \* environment: what is at the manifest path
    fsManifest,        \* environment: what the manifest file parses to
    cpServices,        \* environment: names of the services on the control plane
    cpAtStart,         \* history: cpServices as it was when Run was entered
    cpStuck,           \* environment: services whose provisioning never finishes
    pc,                \* position in Run / createServices / createService
    manifestFilename,  \* local of Run
    pushApplication,   \* local of Run
    manifest,          \* c.manifest.Services
    idx,               \* 1-based position of the range loop of createServices
    statCalls,         \* file names handed to os.Stat, in order
    calls,             \* calls made through plugin.CliConnection, in order
    results,           \* what createService returned, one element per finished entry
    fatalError         \* which manifest-stage fatal error was printed, "" if none

vars == <<args, fsStatus, fsManifest, cpServices, cpAtStart, cpStuck, pc, manifestFilename,
          pushApplication, manifest, idx, statCalls, calls, results, fatalError>>

-----------------------------------------------------------------------------
(* Bounds of the model *)

\* most arguments after the command name (specification Spec)
MaxArgs == 3
\* most manifest entries under specification Spec
MaxRunServices == 1
\* most manifest entries under specification SpecOrch
MaxServices == 2
\* most non-terminal getService answers per polled service
MaxPolls == 1

-----------------------------------------------------------------------------
(* Program constants and input domains *)

CommandName == "create-service-push"
DefaultManifest == "services-manifest.yml"
ServiceManifestFlag == "--service-manifest"
NoServiceManifestFlag == "--no-service-manifest"
NoPushFlag == "--no-push"

\* a command name of the core CLI that is not this plugin's command
OtherCommand == "CLI-MESSAGE-UNINSTALL"

ArgTokens == {ServiceManifestFlag, NoServiceManifestFlag, NoPushFlag, "m.yml"}

SeqsUpTo(S, n) == UNION {[1..k -> S] : k \in 0..n}

\* argument lists: a command name followed by at most n arguments
ArgLists(n) == {<<c>> \o rest : c \in {CommandName, OtherCommand}, rest \in SeqsUpTo(ArgTokens, n)}

\* names differing only in case are different services
ServiceNames == {"db1", "DB1"}
JSONParams == {"", "{\"size\":1}"}

\* entries of a manifest document; the name may be missing (empty)
ServiceSpecs ==
    [ServiceName : ServiceNames \cup {""}, Broker : {"mysql"}, PlanName : {"free"},
     JSONParameters : JSONParams]

Manifests(n) == SeqsUpTo(ServiceSpecs, n)

\* outcome of os.Stat / os.Open / ParseManifest on the manifest path
FileStatuses == {"missing", "unopenable", "badparse", "ok"}

\* error values: the nil error is the empty sequence, an error is the sequence
\* of the pieces of its message
NoError == <<>>
ApiError == <<"api error">>

States == {"in progress", "succeeded", "failed"}
Descriptions == {"create in progress", "create failed"}

\* what cf.GetService answers, forever, for a service whose provisioning
\* never finishes
StuckResponses ==
    {[err |-> NoError, desc |-> "create in progress", state |-> "in progress"]}

\* what cf.GetService can answer
PollResponses ==
    {[err |-> ApiError, desc |-> "", state |-> ""]}
    \cup {[err |-> NoError, desc |-> d, state |-> s] : d \in Descriptions, s \in States}

-----------------------------------------------------------------------------
(* Pure parts of Run *)

Min(S) == CHOOSE x \in S : \A y \in S : x <= y
Max(S) == CHOOSE x \in S : \A y \in S : x >= y

\* ScanManifestFlag with the last occurrence deciding instead of the first
ScanManifestFlagLast(a) ==
    LET hits == {i \in 1..Len(a) : a[i] \in {ServiceManifestFlag, NoServiceManifestFlag}}
    IN  IF hits = {}
        THEN [panic |-> FALSE, file |-> DefaultManifest]
        ELSE LET i == Max(hits)
             IN  IF a[i] = ServiceManifestFlag
                 THEN IF i + 1 > Len(a)
                      THEN [panic |-> TRUE, file |-> DefaultManifest]
                      ELSE [panic |-> FALSE, file |-> a[i + 1]]
                 ELSE [panic |-> FALSE, file |-> ""]

\* the first loop of Run: leftmost --service-manifest / --no-service-manifest.
\* panic is the index-out-of-range of args[i+1].
ScanManifestFlag(a) ==
    LET hits == {i \in 1..Len(a) : a[i] \in {ServiceManifestFlag, NoServiceManifestFlag}}
    IN  IF hits = {}
        THEN [panic |-> FALSE, file |-> DefaultManifest]
        ELSE LET i == Min(hits)
             IN  IF a[i] = ServiceManifestFlag
                 THEN IF i + 1 > Len(a)
                      THEN [panic |-> TRUE, file |-> DefaultManifest]
                      ELSE [panic |-> FALSE, file |-> a[i + 1]]
                 ELSE [panic |-> FALSE, file |-> ""]

\* ScanPushFlag that takes the argument after --service-manifest for a path only
ScanPushFlagSkipPath(a) ==
    ~ \E i \in 1..Len(a) : a[i] = NoPushFlag /\ ~(i > 1 /\ a[i - 1] = ServiceManifestFlag)

\* the second loop of Run: pushApplication
ScanPushFlag(a) == ~ \E i \in 1..Len(a) : a[i] = NoPushFlag

\* Recognized with the command-name check dropped
RecognizedAny(a) == TRUE

\* command dispatch
Recognized(a) == a[1] = CommandName

\* ParseManifest on a document without syntax errors: an entry without its
\* required name is a parse error
ParseManifest(doc) ==
    [err |-> \E i \in DOMAIN doc : doc[i].ServiceName = "", manifest |-> doc]

\* how far os.Stat, os.Open and ParseManifest get on the manifest file
StageStatus(st, doc) ==
    IF st = "ok" /\ ParseManifest(doc).err THEN "badparse" ELSE st

\* ManifestFatal with the os.Exit(1) after a parse error missing
ManifestFatalNoParse(st) == st \in {"missing", "unopenable"}

\* which outcomes of the manifest stage call os.Exit(1)
ManifestFatal(st) == st \in {"missing", "unopenable", "badparse"}

FatalName(st) ==
    CASE st = "missing" -> "FileNotFound"
      [] st = "unopenable" -> "FileOpenError"
      [] st = "badparse" -> "ParseError"
      [] OTHER -> ""

-----------------------------------------------------------------------------
(* Pure parts of createServices / createService *)

Fold(name) == IF name = "DB1" THEN "db1" ELSE name

\* ServiceExists comparing names without regard to case
ServiceExistsFold(s, name) == \E svc \in s : Fold(svc) = Fold(name)

\* ServiceExists with the comparison inverted
ServiceExistsInverted(s, name) == \E svc \in s : svc # name

\* the existence loop of createService over the listing s
ServiceExists(s, name) == \E svc \in s : svc = name

\* CreateArgs without the test for empty parameters
CreateArgsAlwaysFlag(spec) ==
    <<"create-service", spec.Broker, spec.PlanName, spec.ServiceName, "-c", spec.JSONParameters>>

\* the argument list of the creation command
CreateArgs(spec) ==
    IF spec.JSONParameters = ""
    THEN <<"create-service", spec.Broker, spec.PlanName, spec.ServiceName>>
    ELSE <<"create-service", spec.Broker, spec.PlanName, spec.ServiceName,
           "-c", spec.JSONParameters>>

\* the error built when the polled state is "failed"
FailedError(desc, state) == <<"error ", desc, " [status: ", state, "]">>

\* PollOutcome of a poll loop that gives up on a state that is not final
PollOutcomeGiveUp(state) ==
    IF state = "failed" THEN "fail" ELSE "break"

\* PollOutcome without the "failed" branch
PollOutcomeNoFail(state) ==
    IF state = "succeeded" THEN "break" ELSE "again"

\* what the poll loop does with a state: "break", "fail" or "again"
PollOutcome(state) ==
    IF state = "succeeded" THEN "break"
    ELSE IF state = "failed" THEN "fail"
    ELSE "again"

\* ListFailed of a createService that never looks at the error of GetServices
ListFailedIgnored(err) == FALSE

\* createService returns the error of cf.GetServices when there is one
ListFailed(err) == err # NoError

\* CreateFailed of a createService that never looks at the result of c.run
CreateFailedIgnored(result) == FALSE

\* createService returns the result of c.run when it is an error
CreateFailed(result) == result # NoError

\* LoopContinues of a createServices that returns at the first error
LoopStopsOnError(err) == err = <<>>

\* createServices keeps iterating whatever createService returned
LoopContinues(err) == TRUE

\* records of the call trace
Call(op, a, entry, err, list, desc, state) ==
    [op |-> op, args |-> a, entry |-> entry, err |-> err,
     list |-> list, desc |-> desc, state |-> state]

PollCount(cs, entry) ==
    Cardinality({k \in DOMAIN cs : cs[k].op = "GetService" /\ cs[k].entry = entry})

\* createService returns r for the current entry; the range loop moves on
FinishEntry(r) ==
    /\ results' = Append(results, r)
    /\ IF LoopContinues(r) /\ idx < Len(manifest)
       THEN idx' = idx + 1 /\ pc' = "list"
       ELSE idx' = idx /\ pc' = "push"

-----------------------------------------------------------------------------
(* Initial states *)

InitWith(argLists, manifests, stuckSets) ==
    /\ args \in argLists
    /\ fsStatus \in FileStatuses
    /\ fsManifest \in manifests
    /\ (fsStatus # "ok" => fsManifest = <<>>)
    /\ cpServices \in SUBSET ServiceNames
    /\ cpAtStart = cpServices
    /\ cpStuck \in stuckSets
    /\ pc = "start"
    /\ manifestFilename = DefaultManifest
    /\ pushApplication = TRUE
    /\ manifest = <<>>
    /\ idx = 0
    /\ statCalls = <<>>
    /\ calls = <<>>
    /\ results = <<>>
    /\ fatalError = ""

Init == InitWith(ArgLists(MaxArgs), Manifests(MaxRunServices), {{}})

InitOrch ==
    InitWith({<<CommandName>>, <<CommandName, NoPushFlag>>}, Manifests(MaxServices), {{}})

\* runs of the orchestrator, on manifests without parameters, against a control
\* plane, empty at first, on which the provisioning of some services never
\* leaves "in progress"
InitLive ==
    /\ InitWith({<<CommandName>>}, Manifests(MaxServices), SUBSET ServiceNames)
    /\ fsStatus = "ok"
    /\ cpServices = {}
    /\ \A i \in DOMAIN fsManifest : fsManifest[i].JSONParameters = ""

-----------------------------------------------------------------------------
(* Actions *)

\* Run, from entry to the end of the flag scans
RunScan ==
    /\ pc = "start"
    /\ IF ~Recognized(args)
       THEN /\ pc' = "returned"
            /\ UNCHANGED <<manifestFilename, pushApplication>>
       ELSE LET m == ScanManifestFlag(args)
            IN  IF m.panic
                THEN /\ pc' = "panicked"
                     /\ UNCHANGED <<manifestFilename, pushApplication>>
                ELSE /\ manifestFilename' = m.file
                     /\ pushApplication' = ScanPushFlag(args)
                     /\ pc' = "manifest"
    /\ UNCHANGED <<args, fsStatus, fsManifest, cpAtStart, cpStuck, cpServices, manifest, idx,
                   statCalls, calls, results, fatalError>>

\* Run, step 2: os.Stat, os.Open, ParseManifest
ManifestStage ==
    /\ pc = "manifest"
    /\ IF manifestFilename = ""
       THEN /\ pc' = "push"
            /\ UNCHANGED <<statCalls, manifest, idx, fatalError>>
       ELSE /\ statCalls' = Append(statCalls, manifestFilename)
            /\ IF ManifestFatal(StageStatus(fsStatus, fsManifest))
               THEN /\ fatalError' = FatalName(StageStatus(fsStatus, fsManifest))
                    /\ pc' = "exited"
                    /\ UNCHANGED <<manifest, idx>>
               ELSE /\ manifest' = ParseManifest(fsManifest).manifest
                    /\ fatalError' = fatalError
                    /\ IF Len(fsManifest) = 0
                       THEN idx' = idx /\ pc' = "push"
                       ELSE idx' = 1 /\ pc' = "list"
    /\ UNCHANGED <<args, fsStatus, fsManifest, cpAtStart, cpStuck, cpServices, manifestFilename,
                   pushApplication, calls, results>>

\* createService: cf.GetServices and the existence loop
ListServices ==
    /\ pc = "list"
    /\ \E err \in {NoError, ApiError} :
         LET name == manifest[idx].ServiceName
             list == IF err = NoError THEN cpServices ELSE {}
         IN  /\ calls' = Append(calls, Call("GetServices", <<>>, idx, err, list, "", ""))
             /\ IF ListFailed(err)
                THEN FinishEntry(err)
                ELSE IF ServiceExists(list, name)
                     THEN FinishEntry(NoError)
                     ELSE pc' = "create" /\ UNCHANGED <<idx, results>>
    /\ UNCHANGED <<args, fsStatus, fsManifest, cpAtStart, cpStuck, cpServices, manifestFilename,
                   pushApplication, manifest, statCalls, fatalError>>

\* createService: c.run("create-service", ...)
CreateCall ==
    /\ pc = "create"
    /\ \E err \in {NoError, ApiError} :
         /\ calls' = Append(calls, Call("CliCommand", CreateArgs(manifest[idx]), idx, err, {}, "", ""))
         /\ cpServices' = IF err = NoError
                          THEN cpServices \cup {manifest[idx].ServiceName}
                          ELSE cpServices
         /\ IF CreateFailed(err)
            THEN FinishEntry(err)
            ELSE pc' = "poll" /\ UNCHANGED <<idx, results>>
    /\ UNCHANGED <<args, fsStatus, fsManifest, cpAtStart, cpStuck, manifestFilename,
                   pushApplication, manifest, statCalls, fatalError>>

\* createService: one iteration of the poll loop.  A service that is not
\* stuck gives at most MaxPolls answers that make the loop go round; of a
\* stuck service, which never gives another answer, the trace keeps the first
\* MaxPolls and the further iterations leave the state as it is.
Poll ==
    /\ pc = "poll"
    /\ \E r \in (IF manifest[idx].ServiceName \in cpStuck THEN StuckResponses ELSE PollResponses) :
         /\ (r.err = NoError /\ PollOutcome(r.state) = "again"
                /\ manifest[idx].ServiceName \notin cpStuck)
                => PollCount(calls, idx) < MaxPolls
         /\ calls' = IF manifest[idx].ServiceName \in cpStuck /\ PollCount(calls, idx) >= MaxPolls
                     THEN calls
                     ELSE Append(calls, Call("GetService", <<manifest[idx].ServiceName>>, idx,
                                             r.err, {}, r.desc, r.state))
         /\ IF r.err # NoError
            THEN FinishEntry(r.err)
            ELSE CASE PollOutcome(r.state) = "break" -> FinishEntry(NoError)
                   [] PollOutcome(r.state) = "fail" -> FinishEntry(FailedError(r.desc, r.state))
                   [] OTHER -> UNCHANGED <<pc, idx, results>>
    /\ UNCHANGED <<args, fsStatus, fsManifest, cpAtStart, cpStuck, cpServices, manifestFilename,
                   pushApplication, manifest, statCalls, fatalError>>

\* Run, step 3: the forwarded push
Push ==
    /\ pc = "push"
    /\ IF pushApplication
       THEN \E err \in {NoError, ApiError} :
              calls' = Append(calls, Call("CliCommand", <<"push">> \o Tail(args), 0, err, {}, "", ""))
       ELSE UNCHANGED calls
    /\ pc' = "returned"
    /\ UNCHANGED <<args, fsStatus, fsManifest, cpAtStart, cpStuck, cpServices, manifestFilename,
                   pushApplication, manifest, idx, statCalls, results, fatalError>>

Next == RunScan \/ ManifestStage \/ ListServices \/ CreateCall \/ Poll \/ Push

Spec == Init /\ [][Next]_vars

\* the plugin is one sequential thread that keeps running: a step that can be
\* taken is taken
SpecLive == InitLive /\ [][Next]_vars /\ WF_vars(Next)

SpecOrch == InitOrch /\ [][Next]_vars

-----------------------------------------------------------------------------
(* Vocabulary of the properties *)

\* Run is over: it returned, called os.Exit(1), or panicked
Done == pc \in {"returned", "exited", "panicked"}

\* exit status of the plugin process once Run is over
ExitStatus ==
    CASE pc = "returned" -> 0
      [] pc = "exited" -> 1
      [] pc = "panicked" -> 2
      [] OTHER -> -1

\* createServices was called and has returned
OrchReturned == pc \in {"push", "returned"} /\ statCalls # <<>>

IsCreate(c) == c.op = "CliCommand" /\ c.args[1] = "create-service"
IsPush(c) == c.op = "CliCommand" /\ c.args[1] = "push"
IsList(c) == c.op = "GetServices"
IsPoll(c) == c.op = "GetService"

CreateCalls == SelectSeq(calls, IsCreate)

Contains(msg, piece) == \E i \in DOMAIN msg : msg[i] = piece

NoServiceCalls == \A k \in DOMAIN calls : ~IsList(calls[k]) /\ ~IsCreate(calls[k]) /\ ~IsPoll(calls[k])

NonePreExisting == \A i \in DOMAIN manifest : manifest[i].ServiceName \notin cpAtStart

DistinctNames ==
    \A i, j \in DOMAIN manifest : i # j => manifest[i].ServiceName # manifest[j].ServiceName

NoListError == \A k \in DOMAIN calls : IsList(calls[k]) => calls[k].err = NoError

\* one creation call per manifest entry, in file order
OneCreatePerEntry ==
    /\ Len(CreateCalls) = Len(manifest)
    /\ \A k \in DOMAIN CreateCalls :
         /\ CreateCalls[k].entry = k
         /\ CreateCalls[k].args[4] = manifest[k].ServiceName

-----------------------------------------------------------------------------
(* C1 *)

-----------------------------------------------------------------------------
(* C2 *)

\* C2: an entry whose name is in the listing that listServices returned for it
\* gets no creation call and no getService poll, and createService returns nil
\* for it, whatever its broker, plan and parameters.
C2_ExistingServiceSkipped ==
    \A k \in DOMAIN calls :
        (/\ IsList(calls[k])
         /\ calls[k].err = NoError
         /\ manifest[calls[k].entry].ServiceName \in calls[k].list)
        => /\ \A l \in DOMAIN calls :
                calls[l].entry = calls[k].entry => ~IsCreate(calls[l]) /\ ~IsPoll(calls[l])
           /\ Len(results) >= calls[k].entry
           /\ results[calls[k].entry] = NoError

C2_Witness ==
    /\ OrchReturned
    /\ Len(manifest) = 2
    /\ manifest[2].JSONParameters # ""
    /\ cpAtStart = {manifest[2].ServiceName}
    /\ \E k \in DOMAIN calls :
         /\ IsList(calls[k]) /\ calls[k].entry = 2 /\ calls[k].err = NoError
         /\ manifest[2].ServiceName \in calls[k].list
    /\ \E k \in DOMAIN calls : IsCreate(calls[k]) /\ calls[k].entry = 1

-----------------------------------------------------------------------------
(* C3 *)

\* C3: when createServices has returned, for every creation call that returned
\* an error at entry i, every later entry j was listed after it, and, when that
\* listing succeeded without j's name in it, a creation call for j followed.
C3_CreateErrorDoesNotStopBatch ==
    OrchReturned =>
      \A k \in DOMAIN calls :
        (IsCreate(calls[k]) /\ calls[k].err # NoError) =>
          \A j \in (calls[k].entry + 1)..Len(manifest) :
            \E l \in DOMAIN calls :
              /\ l > k
              /\ IsList(calls[l])
              /\ calls[l].entry = j
              /\ (calls[l].err = NoError /\ manifest[j].ServiceName \notin calls[l].list)
                   => \E m \in DOMAIN calls :
                        /\ m > l
                        /\ IsCreate(calls[m])
                        /\ calls[m].entry = j
                        /\ calls[m].args[4] = manifest[j].ServiceName

C3_Witness ==
    /\ OrchReturned
    /\ Len(manifest) = 2
    /\ \E k, m \in DOMAIN calls :
         /\ k < m
         /\ IsCreate(calls[k]) /\ calls[k].entry = 1 /\ calls[k].err # NoError
         /\ IsCreate(calls[m]) /\ calls[m].entry = 2

-----------------------------------------------------------------------------
(* C4 *)

\* C4: of the getService answers of one createService call, one with state
\* "succeeded" makes it return nil and one with state "failed" makes it return
\* an error containing the description and the state, neither being followed
\* by another getService call for that entry; after any other state the
\* program is back at the getService call of the same entry.
C4_PollTermination ==
    \A k \in DOMAIN calls :
      (IsPoll(calls[k]) /\ calls[k].err = NoError) =>
        LET e == calls[k].entry
            last == \A l \in DOMAIN calls : (l > k /\ IsPoll(calls[l])) => calls[l].entry # e
        IN  CASE calls[k].state = "succeeded" ->
                   /\ last
                   /\ Len(results) >= e
                   /\ results[e] = NoError
              [] calls[k].state = "failed" ->
                   /\ last
                   /\ Len(results) >= e
                   /\ results[e] # NoError
                   /\ Contains(results[e], calls[k].desc)
                   /\ Contains(results[e], calls[k].state)
              [] OTHER ->
                   \/ k = Len(calls) /\ pc = "poll" /\ idx = e
                   \/ k < Len(calls) /\ IsPoll(calls[k + 1]) /\ calls[k + 1].entry = e

C4_Witness ==
    /\ OrchReturned
    /\ Len(manifest) = 2
    /\ \E k \in DOMAIN calls :
         /\ IsPoll(calls[k]) /\ calls[k].entry = 1
         /\ calls[k].err = NoError /\ calls[k].state = "in progress"
         /\ k < Len(calls)
         /\ IsPoll(calls[k + 1]) /\ calls[k + 1].state = "failed"
         /\ calls[k + 1].desc = "create failed"
    /\ \E k \in DOMAIN calls :
         IsPoll(calls[k]) /\ calls[k].entry = 2 /\ calls[k].state = "succeeded"

-----------------------------------------------------------------------------
(* C5 *)

HasArg(flag) == \E i \in DOMAIN args : args[i] = flag

\* --no-service-manifest occurs with no --service-manifest to its left
NoManifestFlagFirst ==
    \E i \in DOMAIN args :
        /\ args[i] = NoServiceManifestFlag
        /\ \A j \in 1..(i - 1) : args[j] # ServiceManifestFlag

\* C5 as stated: an argument list containing --no-service-manifest anywhere
\* leads to no manifest file lookup and no listServices, creation or
\* getService call.
C5_AsStated == HasArg(NoServiceManifestFlag) => (statCalls = <<>> /\ NoServiceCalls)

\* C5 amended: the same, for argument lists in which --no-service-manifest
\* occurs with no --service-manifest before it.
C5_NoServiceManifestFirst == NoManifestFlagFirst => (statCalls = <<>> /\ NoServiceCalls)

C5_Witness ==
    /\ pc = "returned"
    /\ Recognized(args)
    /\ NoManifestFlagFirst
    /\ HasArg(ServiceManifestFlag)
    /\ fsStatus = "ok"
    /\ Len(fsManifest) > 0
    /\ \E k \in DOMAIN calls : IsPush(calls[k])

-----------------------------------------------------------------------------
(* C6 *)

\* C6: an argument list containing --no-push anywhere never leads to a
\* forwarded push command.
C6_NoPushSuppressesPush ==
    HasArg(NoPushFlag) => \A k \in DOMAIN calls : ~IsPush(calls[k])

C6_Witness ==
    /\ pc = "returned"
    /\ Recognized(args)
    /\ Len(args) >= 3
    /\ args[2] = ServiceManifestFlag
    /\ args[3] = NoPushFlag
    /\ manifestFilename = NoPushFlag
    /\ Len(results) > 0

-----------------------------------------------------------------------------
(* C7 *)

\* C7: a finished run without a manifest-stage fatal error has exit status 0,
\* and exit status 1 occurs only with a manifest-stage fatal error.
C7_ExitStatus ==
    Done => /\ (fatalError = "" => ExitStatus = 0)
            /\ (ExitStatus = 1 => fatalError # "")

-----------------------------------------------------------------------------
(* C8 *)

\* C8: once the manifest stage has looked up a file that is missing, cannot be
\* opened or does not parse, the process has exited with status 1 and no call
\* at all went to the control plane.
C8_ManifestFatalHalts ==
    (statCalls # <<>> /\ fsStatus \in {"missing", "unopenable", "badparse"})
    => /\ pc = "exited"
       /\ ExitStatus = 1
       /\ fatalError # ""
       /\ calls = <<>>

C8_Witness ==
    /\ pc = "exited"
    /\ fsStatus = "badparse"
    /\ pushApplication
    /\ statCalls = <<"m.yml">>

-----------------------------------------------------------------------------
(* C9 *)

\* C9: every forwarded command is "push" followed by args[1:] and is the last
\* call of the run, and a finished run of the plugin's command without
\* --no-push and without manifest-stage fatal error has issued exactly one.
C9_PushForwardedLast ==
    /\ \A k \in DOMAIN calls :
         IsPush(calls[k]) => k = Len(calls) /\ calls[k].args = <<"push">> \o Tail(args)
    /\ (Done /\ Recognized(args) /\ ~HasArg(NoPushFlag) /\ fatalError = "")
         => Cardinality({k \in DOMAIN calls : IsPush(calls[k])}) = 1

-----------------------------------------------------------------------------
(* C10 *)

\* C10: when args[0] is not the plugin's command, Run has returned after its
\* first step with the flag locals untouched, no file lookup, no call through
\* the CLI connection and no process exit.
C10_UnrecognizedCommandIsNoOp ==
    (args[1] # CommandName /\ pc # "start")
    => /\ pc = "returned"
       /\ manifestFilename = DefaultManifest
       /\ pushApplication = TRUE
       /\ statCalls = <<>>
       /\ calls = <<>>
       /\ fatalError = ""

C10_Witness ==
    /\ args[1] # CommandName
    /\ pc = "returned"
    /\ Len(args) = 3
    /\ args[2] = NoPushFlag
    /\ args[3] = ServiceManifestFlag

-----------------------------------------------------------------------------
(* C11 *)

\* C11 as stated: once createService has returned for an entry whose creation
\* call returned an error, a getService call for that entry followed the
\* creation call.
C11_AsStated ==
    \A k \in DOMAIN calls :
      (IsCreate(calls[k]) /\ calls[k].err # NoError /\ Len(results) >= calls[k].entry)
      => \E l \in DOMAIN calls :
           /\ l > k
           /\ IsPoll(calls[l])
           /\ calls[l].entry = calls[k].entry
           /\ calls[l].args = <<manifest[calls[k].entry].ServiceName>>

\* C11 amended: a creation call that returned an error ends createService for
\* its entry at once: createService returns that error, and no getService call
\* is issued for the entry.
C11_CreateErrorSkipsPolling ==
    \A k \in DOMAIN calls :
      (IsCreate(calls[k]) /\ calls[k].err # NoError)
      => /\ \A l \in DOMAIN calls : IsPoll(calls[l]) => calls[l].entry # calls[k].entry
         /\ Len(results) >= calls[k].entry
         /\ results[calls[k].entry] = calls[k].err

C11_Witness ==
    /\ OrchReturned
    /\ Len(manifest) = 2
    /\ \E k \in DOMAIN calls :
         IsCreate(calls[k]) /\ calls[k].entry = 1 /\ calls[k].err # NoError
    /\ \E l \in DOMAIN calls : IsPoll(calls[l]) /\ calls[l].entry = 2

-----------------------------------------------------------------------------
(* C12 *)

\* createService is polling a service whose state never becomes final
StuckPoll == pc = "poll" /\ manifest[idx].ServiceName \in cpStuck

\* C12: a run that is in createServices eventually reaches the push step
\* unless it comes to poll a service whose state never becomes "succeeded" or
\* "failed", and from the push step Run returns; a run polling such a service
\* stays in the poll loop of that entry for ever: no later entry is processed
\* and no push is forwarded.
C12_TerminationDependsOnControlPlane ==
    /\ (pc \in {"list", "create", "poll"}) ~> (pc = "push" \/ StuckPoll)
    /\ (pc = "push") ~> (pc = "returned")
    /\ [][StuckPoll => (StuckPoll' /\ idx' = idx /\ results' = results)]_vars
    /\ [](StuckPoll => \A k \in DOMAIN calls : ~IsPush(calls[k]))

C12_Witness ==
    /\ StuckPoll
    /\ idx = 1
    /\ Len(manifest) = 2
    /\ PollCount(calls, idx) = MaxPolls
    /\ manifest[2].ServiceName \notin cpStuck
    /\ manifest[2].ServiceName # manifest[1].ServiceName

-----------------------------------------------------------------------------
(* C13 *)

IsManifestFlag(a) == a \in {"--service-manifest", "--no-service-manifest"}

\* positions of the leftmost manifest flag of args: empty or a single position
LeftmostManifestFlag ==
    {i \in DOMAIN args : IsManifestFlag(args[i]) /\ \A j \in 1..(i - 1) : ~IsManifestFlag(args[j])}

\* C13: once the flag scan of the plugin's command is over, manifestFilename
\* is the argument after the leftmost manifest flag when that flag is
\* --service-manifest, empty when it is --no-service-manifest, and
\* "services-manifest.yml" when args has neither; it is the only file ever
\* looked up, and it is looked up only when it is not empty.
C13_ManifestPathByLeftmostFlag ==
    (args[1] = CommandName /\ pc \notin {"start", "panicked"})
    => /\ LeftmostManifestFlag = {} => manifestFilename = "services-manifest.yml"
       /\ \A i \in LeftmostManifestFlag :
            /\ args[i] = "--service-manifest" => manifestFilename = args[i + 1]
            /\ args[i] = "--no-service-manifest" => manifestFilename = ""
       /\ statCalls # <<>> => (manifestFilename # "" /\ statCalls = <<manifestFilename>>)

C13_Witness ==
    /\ pc = "returned"
    /\ args = <<CommandName, "--service-manifest", "m.yml", "--no-service-manifest">>
    /\ manifestFilename = "m.yml"
    /\ statCalls = <<"m.yml">>
    /\ Len(results) > 0

-----------------------------------------------------------------------------
(* C14 *)

CallsOf(e) == {k \in DOMAIN calls : calls[k].entry = e}

\* C14: the calls for the manifest entries come entry after entry; the calls
\* of one entry are one listServices call first, then at most one creation
\* call, issued only after a listing without the entry's name (and always
\* issued by the time such an entry is finished), then getService calls for
\* the entry's name, issued only after a creation call of this run for that
\* name that returned no error.
C14_SequentialPerEntry ==
    /\ \A k, l \in DOMAIN calls :
         (k < l /\ calls[k].entry > 0 /\ calls[l].entry > 0) => calls[k].entry <= calls[l].entry
    /\ \A e \in 1..Len(manifest) :
         LET lists == {k \in CallsOf(e) : IsList(calls[k])}
             creates == {k \in CallsOf(e) : IsCreate(calls[k])}
             polls == {k \in CallsOf(e) : IsPoll(calls[k])}
         IN  /\ CallsOf(e) = lists \cup creates \cup polls
             /\ (CallsOf(e) # {} \/ e <= Len(results)) => Cardinality(lists) = 1
             /\ \A l \in lists : \A k \in CallsOf(e) : l <= k
             /\ Cardinality(creates) <= 1
             /\ \A c \in creates : \A l \in lists :
                  /\ calls[l].err = NoError
                  /\ manifest[e].ServiceName \notin calls[l].list
                  /\ calls[c].args[4] = manifest[e].ServiceName
             /\ \A l \in lists :
                  (/\ e <= Len(results)
                   /\ calls[l].err = NoError
                   /\ manifest[e].ServiceName \notin calls[l].list) => creates # {}
             /\ \A q \in polls :
                  /\ calls[q].args = <<manifest[e].ServiceName>>
                  /\ \E c \in creates :
                       /\ c < q
                       /\ calls[c].err = NoError
                       /\ calls[c].args[4] = calls[q].args[1]

C14_Witness ==
    /\ OrchReturned
    /\ Len(manifest) = 2
    /\ Len(calls) >= 6
    /\ IsList(calls[1]) /\ calls[1].entry = 1
    /\ IsCreate(calls[2]) /\ calls[2].entry = 1
    /\ IsPoll(calls[3]) /\ calls[3].entry = 1
    /\ IsPoll(calls[4]) /\ calls[4].entry = 1
    /\ IsList(calls[5]) /\ calls[5].entry = 2
    /\ IsCreate(calls[6]) /\ calls[6].entry = 2 /\ calls[6].err # NoError

-----------------------------------------------------------------------------
(* C15 *)

\* C15: every creation call carries "create-service", the broker, the plan
\* and the name of its manifest entry, in this order, and nothing more when
\* the entry's parameters are the empty string, "-c" and the parameters string
\* otherwise.
C15_CreateArgsShape ==
    \A k \in DOMAIN calls :
      IsCreate(calls[k]) =>
        LET e == manifest[calls[k].entry]
            base == <<"create-service", e.Broker, e.PlanName, e.ServiceName>>
        IN  /\ e.JSONParameters = "" => calls[k].args = base
            /\ e.JSONParameters # "" => calls[k].args = base \o <<"-c", e.JSONParameters>>

C15_Witness ==
    /\ OrchReturned
    /\ Len(CreateCalls) = 2
    /\ Len(CreateCalls[1].args) = 4
    /\ Len(CreateCalls[2].args) = 6
    /\ CreateCalls[2].args[6] = "{\"size\":1}"

-----------------------------------------------------------------------------
(* C16 *)

-----------------------------------------------------------------------------
(* C17 *)

\* C17: on the plugin's command the flag scan never reads args outside its
\* bounds, that is, Run never panics on an index out of range.
C17_ScanStaysInBounds == args[1] = CommandName => pc # "panicked"

-----------------------------------------------------------------------------
(* C18 *)

\* C18: an entry whose listServices call returned an error gets no creation
\* call and no getService call, a getService call that returned an error is
\* the last one of its entry, in both cases createService returns that very
\* error, and when createServices has returned every later entry was listed
\* after the failed call.
C18_ApiErrorsAreReportedOnly ==
    \A k \in DOMAIN calls :
      ((IsList(calls[k]) \/ IsPoll(calls[k])) /\ calls[k].err # NoError) =>
        LET e == calls[k].entry
        IN  /\ IsList(calls[k]) =>
                 \A l \in CallsOf(e) : ~IsCreate(calls[l]) /\ ~IsPoll(calls[l])
            /\ \A l \in CallsOf(e) : l <= k
            /\ Len(results) >= e
            /\ results[e] = calls[k].err
            /\ OrchReturned =>
                 \A j \in (e + 1)..Len(manifest) :
                   \E l \in DOMAIN calls : l > k /\ IsList(calls[l]) /\ calls[l].entry = j

C18_Witness ==
    /\ OrchReturned
    /\ Len(manifest) = 2
    /\ Len(calls) >= 5
    /\ IsList(calls[1]) /\ calls[1].entry = 1 /\ calls[1].err # NoError
    /\ IsList(calls[2]) /\ calls[2].entry = 2 /\ calls[2].err = NoError
    /\ IsCreate(calls[3])
    /\ IsPoll(calls[4]) /\ calls[4].state = "in progress"
    /\ IsPoll(calls[5]) /\ calls[5].err # NoError
    /\ \A k \in DOMAIN calls : k > 5 => IsPush(calls[k])

====
